---- MODULE Spec2Model ----
(***************************************************************************)
(* Model of python/triton/stdlib.py: the export registry (__all__), the    *)
(* integer helpers cdiv / minimum / maximum and the index remap swizzle2d. *)
(*                                                                         *)
(* Three specifications share the variables:                               *)
(*   SpecRegistry  module load (the @export decorators, in file order)     *)
(*                 followed by further calls of export by a client;        *)
(*   SpecHelpers   calls of cdiv, minimum and maximum;                     *)
(*   SpecSwizzle   a launch grid size_i x size_j whose programs call       *)
(*                 swizzle2d in increasing flat index ij = i*size_j + j.   *)
(***************************************************************************)
EXTENDS Integers, Sequences, FiniteSets, TLC

VARIABLES
    __all__,    \* the export registry, stdlib.py line 14
    pc,         \* number of @export declarations of the module already executed
    client,     \* number of export calls made after module load
    exp_call,   \* the last call of export: its argument and the value returned
    call,       \* the last call of cdiv / minimum / maximum: fn, args, ret
    launch,     \* arguments size_i, size_j, size_g of the running sweep
    out         \* out[k] is the outcome of swizzle2d for flat index ij = k-1

vars == <<__all__, pc, client, exp_call, call, launch, out>>

-----------------------------------------------------------------------------
(* Bounds of the model *)

MaxClient == 2      \* export calls after module load
MaxX      == 8      \* dividend of cdiv
MaxDiv    == 4      \* divisor of cdiv
MaxVal    == 2      \* operand values of minimum / maximum
MaxSize   == 5      \* size_i, size_j; size_g ranges to MaxSize + 1

-----------------------------------------------------------------------------
(* Primitive layer *)

\* Python's // on integers (floor division), divisor not zero
floordiv(a, b) == a \div b

\* Python's % on integers (sign of the divisor), divisor not zero
mod(a, b) == a - b * floordiv(a, b)

\* tlcore.where on scalars: elementwise select
where(c, x, y) == IF c THEN x ELSE y

\* A value handed to minimum / maximum: its number and its identity
Block(v, id) == [val |-> v, id |-> id]

\* What a division by zero can produce: Python integers raise, a compiled
\* kernel yields an unspecified number.
DivByZero(garbage) ==
    {[status |-> "ZeroDivisionError", value |-> <<>>]}
        \cup {[status |-> "returned", value |-> g] : g \in garbage}

-----------------------------------------------------------------------------
(* Export registry *)

\* The decorated functions of the module, in file order
Declarations ==
    <<"abs", "cdiv", "minimum", "maximum", "sigmoid", "softmax",
      "ravel", "swizzle2d", "zeros_like">>

\* triton.code_gen.jit applied to a def: the object the name is bound to
tljit(name) == [kind |-> "JITFunction", name |-> name]

\* A public name as an entry of a registry: a string
PublicName(name) == [kind |-> "str", name |-> name]

\* export with duplicates rejected
export_dedup(func, registry) ==
    [registry |-> IF \E k \in 1..Len(registry) : registry[k] = func
                  THEN registry ELSE Append(registry, func),
     ret |-> func]

\* def export(func): __all__.append(func); return func
export(func, registry) ==
    [registry |-> Append(registry, func), ret |-> func]

\* The objects a client can hand to export after load
ClientFuncs ==
    {tljit(Declarations[k]) : k \in 1..Len(Declarations)}
        \cup {[kind |-> "function", name |-> "user_fn"]}

NoFunc == [kind |-> "none", name |-> ""]
NoCall == [fn |-> "none", args |-> <<>>, ret |-> [status |-> "none", value |-> <<>>]]
NoLaunch == [size_i |-> 1, size_j |-> 1, size_g |-> 1]

\* Module load: the next "@export @tljit def ..." of the file is executed
LoadDecl ==
    /\ pc < Len(Declarations)
    /\ LET r == export(tljit(Declarations[pc + 1]), __all__)
       IN  /\ __all__' = r.registry
           /\ exp_call' = [arg |-> tljit(Declarations[pc + 1]), ret |-> r.ret]
    /\ pc' = pc + 1
    /\ UNCHANGED <<client, call, launch, out>>

\* After load, a client calls export(func)
ClientExport(func) ==
    /\ pc = Len(Declarations)
    /\ client < MaxClient
    /\ LET r == export(func, __all__)
       IN  /\ __all__' = r.registry
           /\ exp_call' = [arg |-> func, ret |-> r.ret]
    /\ client' = client + 1
    /\ UNCHANGED <<pc, call, launch, out>>

InitRegistry ==
    /\ __all__ = <<>>
    /\ pc = 0
    /\ client = 0
    /\ exp_call = [arg |-> NoFunc, ret |-> NoFunc]
    /\ call = NoCall
    /\ launch = NoLaunch
    /\ out = <<>>

NextRegistry ==
    \/ LoadDecl
    \/ \E func \in ClientFuncs : ClientExport(func)

SpecRegistry == InitRegistry /\ [][NextRegistry]_vars

\* C6: after module load the registry holds one entry per decorated function,
\* once each and in declaration order, and each entry is the function's
\* public name.
C6_RegistryHoldsPublicNames ==
    (pc = Len(Declarations) /\ client = 0) =>
        /\ Len(__all__) = Len(Declarations)
        /\ \A k \in 1..Len(Declarations) :
               __all__[k] = PublicName(Declarations[k])

\* C7: every call of export adds exactly one entry at the end, leaves the
\* earlier entries as they were, returns its argument, and appends also when
\* the argument is registered already.
C7_AppendOnly ==
    [][ /\ Len(__all__') = Len(__all__) + 1
        /\ SubSeq(__all__', 1, Len(__all__)) = __all__
        /\ __all__'[Len(__all__')] = exp_call'.arg
        /\ exp_call'.ret = exp_call'.arg ]_vars

\* C7 witness: a function registered twice holds two entries
C7_Witness ==
    \E k, l \in 1..Len(__all__) : k < l /\ __all__[k] = __all__[l]

-----------------------------------------------------------------------------
(* cdiv, minimum, maximum *)

\* cdiv without the rounding term
cdiv_floor(x, div) == floordiv(x, div)

\* return (x + div - 1) // div
cdiv(x, div) == floordiv(x + div - 1, div)

\* minimum with a non-strict comparison
minimum_le(x, y) == where(x.val <= y.val, x, y)

\* minimum selecting the larger operand
minimum_gt(x, y) == where(x.val > y.val, x, y)

\* return tlcore.where(x < y, x, y)
minimum(x, y) == where(x.val < y.val, x, y)

\* return tlcore.where(x > y, x, y)
maximum(x, y) == where(x.val > y.val, x, y)

Returned(v) == [status |-> "returned", value |-> v]

\* The operands a caller passes to minimum / maximum: two distinguishable
\* objects "a" and "b", each with any value
Operands == {Block(v, id) : v \in 0..MaxVal, id \in {"a", "b"}}

\* A call cdiv(x, div); div = 0 reaches the primitive's integer division
CallCdiv(x, div) ==
    /\ \E r \in (IF div = 0 THEN DivByZero({0}) ELSE {Returned(cdiv(x, div))}) :
           call' = [fn |-> "cdiv", args |-> <<x, div>>, ret |-> r]
    /\ UNCHANGED <<__all__, pc, client, exp_call, launch, out>>

CallMinimum(x, y) ==
    /\ call' = [fn |-> "minimum", args |-> <<x, y>>, ret |-> Returned(minimum(x, y))]
    /\ UNCHANGED <<__all__, pc, client, exp_call, launch, out>>

CallMaximum(x, y) ==
    /\ call' = [fn |-> "maximum", args |-> <<x, y>>, ret |-> Returned(maximum(x, y))]
    /\ UNCHANGED <<__all__, pc, client, exp_call, launch, out>>

InitHelpers == InitRegistry

NextHelpers ==
    \/ \E x \in 0..MaxX, div \in 0..MaxDiv : CallCdiv(x, div)
    \/ \E x, y \in Operands : CallMinimum(x, y)
    \/ \E x, y \in Operands : CallMaximum(x, y)

SpecHelpers == InitHelpers /\ [][NextHelpers]_vars

IsMinMaxCall == call.fn \in {"minimum", "maximum"}

\* C4 as stated: when the two operands compare equal, minimum and maximum
\* both return x, the first operand.
C4_TieReturnsFirst ==
    (IsMinMaxCall /\ call.args[1].val = call.args[2].val) =>
        call.ret.value = call.args[1]

\* C4 amended: when the two operands compare equal, minimum and maximum both
\* return y, the second operand (the strict comparison is false, so the
\* select takes its y branch); the result has the common value.
C4_TieReturnsSecond ==
    (IsMinMaxCall /\ call.args[1].val = call.args[2].val) =>
        /\ call.ret.value = call.args[2]
        /\ call.ret.value.val = call.args[1].val

\* C4 witness: a call with equal values held by two distinct objects
C4_Witness ==
    /\ IsMinMaxCall
    /\ call.args[1].val = call.args[2].val
    /\ call.args[1].id # call.args[2].id

\* The least q with q * div >= x, for x >= 0 and div > 0
Ceiling(x, div) ==
    CHOOSE q \in 0..x : q * div >= x /\ \A p \in 0..x : p * div >= x => q <= p

\* C5: for x >= 0 and div > 0, cdiv(x, div) is the least integer q with
\* q * div >= x; for div = 0 cdiv reports no error of its own, the outcome is
\* that of the primitive's division.
C5_CdivIsCeiling ==
    call.fn = "cdiv" =>
        /\ call.args[2] > 0 =>
               call.ret = Returned(Ceiling(call.args[1], call.args[2]))
        /\ call.args[2] = 0 => call.ret \in DivByZero({0})
        /\ call.args = <<7, 2>> => call.ret.value = 4
        /\ call.args = <<8, 2>> => call.ret.value = 4

\* C5 witness: a call that rounds up
C5_Witness ==
    /\ call.fn = "cdiv"
    /\ call.args[2] > 1
    /\ mod(call.args[1], call.args[2]) # 0
    /\ call.ret.status = "returned"

-----------------------------------------------------------------------------
(* swizzle2d *)

\* ij = i * size_j + j
flat(i, j, size_j) == i * size_j + j

\* off_i = group_id * size_g, with group_id = ij // (size_g * size_j)
off_i(ij, size_j, size_g) == floordiv(ij, size_g * size_j) * size_g

\* size_g = minimum(size_i - off_i, size_g): the rows of the group of ij
eff_g(ij, size_i, size_j, size_g) ==
    minimum(Block(size_i - off_i(ij, size_j, size_g), "a"), Block(size_g, "b")).val

\* swizzle2d with the last group's row count not reduced
swizzle2d_full_group(i, j, size_i, size_j, size_g) ==
    LET ij      == flat(i, j, size_j)
        size_gj == size_g * size_j
        off     == off_i(ij, size_j, size_g)
    IN  <<off + mod(ij, size_g), floordiv(mod(ij, size_gj), size_g)>>

\* swizzle2d with the group's first row left out of the new row index
swizzle2d_no_offset(i, j, size_i, size_j, size_g) ==
    LET ij      == flat(i, j, size_j)
        size_gj == size_g * size_j
        eff     == eff_g(ij, size_i, size_j, size_g)
    IN  <<mod(ij, eff), floordiv(mod(ij, size_gj), eff)>>

\* swizzle2d filling rows before columns inside a group
swizzle2d_row_major(i, j, size_i, size_j, size_g) ==
    LET ij      == flat(i, j, size_j)
        size_gj == size_g * size_j
        off     == off_i(ij, size_j, size_g)
    IN  <<off + floordiv(mod(ij, size_gj), size_j), mod(ij, size_j)>>

\* The value swizzle2d returns when none of its divisors is zero
swizzle2d(i, j, size_i, size_j, size_g) ==
    LET ij      == flat(i, j, size_j)
        size_gj == size_g * size_j
        off     == off_i(ij, size_j, size_g)
        eff     == eff_g(ij, size_i, size_j, size_g)
        new_i   == off + mod(ij, eff)
        new_j   == floordiv(mod(ij, size_gj), eff)
    IN  <<new_i, new_j>>

\* The outcomes of a call: the code checks no argument, so a zero divisor
\* reaches ij // size_gj, or ij % size_g and (ij % size_gj) // size_g
swizzle2d_call(i, j, size_i, size_j, size_g) ==
    IF size_g * size_j = 0
    THEN DivByZero({<<0, 0>>})
    ELSE IF eff_g(flat(i, j, size_j), size_i, size_j, size_g) = 0
         THEN DivByZero({<<0, 0>>})
         ELSE {Returned(swizzle2d(i, j, size_i, size_j, size_g))}

ValidSizes(l) == l.size_i > 0 /\ l.size_j > 0 /\ l.size_g > 0

\* Number of calls of a sweep: every cell of the grid for valid sizes; one
\* call with i = j = 0 otherwise
Calls(l) == IF ValidSizes(l) THEN l.size_i * l.size_j ELSE 1

\* The program with flat index Len(out) calls swizzle2d with its (i, j)
CallSwizzle2d ==
    /\ Len(out) < Calls(launch)
    /\ LET ij == Len(out)
           i  == IF ValidSizes(launch) THEN floordiv(ij, launch.size_j) ELSE 0
           j  == IF ValidSizes(launch) THEN mod(ij, launch.size_j) ELSE 0
       IN  \E r \in swizzle2d_call(i, j, launch.size_i, launch.size_j, launch.size_g) :
               out' = Append(out, r)
    /\ UNCHANGED <<__all__, pc, client, exp_call, call, launch>>

\* A new sweep is launched once the running one is complete
Launch(size_i, size_j, size_g) ==
    /\ Len(out) = Calls(launch)
    /\ launch' = [size_i |-> size_i, size_j |-> size_j, size_g |-> size_g]
    /\ out' = <<>>
    /\ UNCHANGED <<__all__, pc, client, exp_call, call>>

InitSwizzle ==
    /\ __all__ = <<>>
    /\ pc = 0
    /\ client = 0
    /\ exp_call = [arg |-> NoFunc, ret |-> NoFunc]
    /\ call = NoCall
    /\ launch = NoLaunch
    /\ out = <<>>

NextSwizzle ==
    \/ CallSwizzle2d
    \/ \E size_i, size_j \in -1..MaxSize, size_g \in -1..(MaxSize + 1) :
           Launch(size_i, size_j, size_g)

SpecSwizzle == InitSwizzle /\ [][NextSwizzle]_vars

-----------------------------------------------------------------------------
(* Claims about swizzle2d *)

Grid(l) == (0..(l.size_i - 1)) \X (0..(l.size_j - 1))

Complete == ValidSizes(launch) /\ Len(out) = Calls(launch)

\* C1: for positive sizes swizzle2d is a bijection of the grid onto itself:
\* every call returns a cell of the grid, no two calls return the same cell,
\* and the complete sweep returns every cell.
C1_Bijection ==
    ValidSizes(launch) =>
        /\ \A k \in 1..Len(out) :
               out[k].status = "returned" /\ out[k].value \in Grid(launch)
        /\ \A k, l \in 1..Len(out) : k < l => out[k].value # out[l].value
        /\ Complete => {out[k].value : k \in 1..Len(out)} = Grid(launch)

\* C1 witness: a complete sweep of a grid with size_g > size_i
C1_Witness ==
    /\ Complete
    /\ launch.size_g > launch.size_i
    /\ launch.size_i > 1
    /\ launch.size_j > 1

\* C2: a call with a non-positive size signals InvalidArgument and returns no
\* coordinate pair.
C2_InvalidArgument ==
    (~ValidSizes(launch) /\ Len(out) = 1) => out[1].status = "InvalidArgument"

\* The grid of the docstring, for size_i = size_j = 4 and size_g = 2
ExampleGrid ==
    << <<0, 2, 4, 6>>,
       <<1, 3, 5, 7>>,
       <<8, 10, 12, 14>>,
       <<9, 11, 13, 15>> >>

IsExample == launch = [size_i |-> 4, size_j |-> 4, size_g |-> 2]

\* C3: for size_i = size_j = 4 and size_g = 2 the cell swizzle2d returns for
\* (i, j) holds i*4 + j in the documented grid; (1, 0) maps to (0, 2) and
\* (0, 0) to (0, 0).
C3_ExampleGrid ==
    IsExample =>
        /\ \A k \in 1..Len(out) :
               /\ out[k].value \in Grid(launch)
               /\ ExampleGrid[out[k].value[1] + 1][out[k].value[2] + 1] = k - 1
        /\ Len(out) >= 1 => out[1].value = <<0, 0>>
        /\ Len(out) >= 5 => out[5].value = <<0, 2>>

\* C3 witness: the complete sweep of the example
C3_Witness == IsExample /\ Len(out) = 16

\* The cells of the row group g: rows off .. off + eff - 1, every column
GroupCells(l, g) ==
    LET off == g * l.size_g
        eff == IF l.size_i - off < l.size_g THEN l.size_i - off ELSE l.size_g
    IN  (off..(off + eff - 1)) \X (0..(l.size_j - 1))

\* C8: the image of the cells of every row group, the ragged last one
\* included, is that same set of cells.
C8_GroupOntoItself ==
    Complete =>
        \A g \in 0..(cdiv(launch.size_i, launch.size_g) - 1) :
            {out[flat(c[1], c[2], launch.size_j) + 1].value : c \in GroupCells(launch, g)}
                = GroupCells(launch, g)

\* C8 witness: a complete sweep whose last group is ragged
C8_Witness ==
    /\ Complete
    /\ launch.size_g < launch.size_i
    /\ mod(launch.size_i, launch.size_g) # 0
    /\ launch.size_j > 1

C10_EffectiveGroupSize ==
    ValidSizes(launch) =>
        \A k \in 1..Len(out) :
            LET eff == eff_g(k - 1, launch.size_i, launch.size_j, launch.size_g)
            IN  1 <= eff /\ eff <= launch.size_g /\ out[k].status = "returned"

\* C10 witness: a call in a ragged last group, where eff_g < size_g
C10_Witness ==
    /\ ValidSizes(launch)
    /\ Len(out) >= 1
    /\ eff_g(Len(out) - 1, launch.size_i, launch.size_j, launch.size_g) < launch.size_g
    /\ launch.size_g < launch.size_i

====
